---- MODULE Spec2Model ----
(***************************************************************************)
(* The web frontend of the dust emulator (frontend/web/crate/src/lib.rs):  *)
(* the save-type catalog, the save classification and normalisation done   *)
(* by create_emu_state, and the EmuState session operations.               *)
(*                                                                         *)
(* Byte buffers are kept exactly, but run-length encoded: a buffer is a    *)
(* sequence of runs [n |-> count, b |-> byte] with n > 0 and no two        *)
(* adjacent runs of the same byte, so that equal buffers are equal values. *)
(* Option<T> is a sequence of length 0 (None) or 1 (Some).                 *)
(***************************************************************************)
EXTENDS Integers, Sequences, FiniteSets, TLC

VARIABLES
    pc,             \* "unbuilt" | "built" | "panicked"
    save_type,      \* create_emu_state's save_type argument (Option<SaveType>)
    save_contents,  \* create_emu_state's save_contents_arr argument (Option<bytes>)
    resolved,       \* the save type create_emu_state resolved (its inner save_type)
    emu,            \* EmuState.emu : Option<Emu>
    ret             \* the last call and what it handed back to the host

vars == <<pc, save_type, save_contents, resolved, emu, ret>>

(***************************** bounds ***************************************)
\* Image lengths tried around every catalog capacity: capacity - Delta .. capacity + Delta.
Delta == 1
\* Number of key flags of the Keys bit set that the model tracks.
NumKeys == 1

(***************************** Option ***************************************)
NoneOpt == <<>>
Some(x) == <<x>>
IsSome(o) == o /= <<>>
Unwrap(o) == o[1]

(***************************** byte buffers *********************************)
RECURSIVE ByteLen(_)
ByteLen(buf) == IF buf = <<>> THEN 0 ELSE Head(buf).n + ByteLen(Tail(buf))

\* n copies of byte b
Fill(n, b) == IF n <= 0 THEN <<>> ELSE <<[n |-> n, b |-> b]>>

new_zeroed(n) == Fill(n, 0)

\* buf followed by one run, merged with the last run when the bytes agree
Push(buf, run) ==
    IF run.n <= 0 THEN buf
    ELSE IF buf /= <<>> /\ buf[Len(buf)].b = run.b
         THEN [buf EXCEPT ![Len(buf)].n = @ + run.n]
         ELSE Append(buf, run)

RECURSIVE Concat(_, _)
Concat(a, b) == IF b = <<>> THEN a ELSE Concat(Push(a, Head(b)), Tail(b))

\* buf[..k]
RECURSIVE Take(_, _)
Take(buf, k) ==
    IF k <= 0 \/ buf = <<>> THEN <<>>
    ELSE IF Head(buf).n >= k THEN <<[n |-> k, b |-> Head(buf).b]>>
         ELSE Concat(<<Head(buf)>>, Take(Tail(buf), k - Head(buf).n))

\* buf[k..]
RECURSIVE Drop(_, _)
Drop(buf, k) ==
    IF buf = <<>> THEN <<>>
    ELSE IF k <= 0 THEN buf
         ELSE IF Head(buf).n > k
              THEN <<[n |-> Head(buf).n - k, b |-> Head(buf).b]>> \o Tail(buf)
              ELSE Drop(Tail(buf), k - Head(buf).n)

\* buf[i], for i < ByteLen(buf)
RECURSIVE ByteAt(_, _)
ByteAt(buf, i) == IF i < Head(buf).n THEN Head(buf).b ELSE ByteAt(Tail(buf), i - Head(buf).n)

\* dst[..k].copy_from_slice(&src[..k])
copy_from_slice(dst, src, k) == Concat(Take(src, k), Drop(dst, k))

Min(a, b) == IF a < b THEN a ELSE b

(***************************** SaveType *************************************)
SaveType ==
    {"None", "Eeprom4k", "EepromFram64k", "EepromFram512k", "EepromFram1m",
     "Flash2m", "Flash4m", "Flash8m", "Nand64m", "Nand128m", "Nand256m"}

expected_len(t) ==
    CASE t = "None"           -> NoneOpt
      [] t = "Eeprom4k"       -> Some(512)
      [] t = "EepromFram64k"  -> Some(8192)
      [] t = "EepromFram512k" -> Some(65536)
      [] t = "EepromFram1m"   -> Some(131072)
      [] t = "Flash2m"        -> Some(262144)
      [] t = "Flash4m"        -> Some(524288)
      [] t = "Flash8m"        -> Some(1048576)
      [] t = "Nand64m"        -> Some(8388608)
      [] t = "Nand128m"       -> Some(16777216)
      [] t = "Nand256m"       -> Some(33554432)

\* from_save_len with the 0x2000 arm returning the 0x200 arm's type
from_save_len_Duplicate(len) ==
    CASE len = 512      -> Some("Eeprom4k")
      [] len = 8192     -> Some("Eeprom4k")
      [] len = 65536    -> Some("EepromFram512k")
      [] len = 131072   -> Some("EepromFram1m")
      [] len = 262144   -> Some("Flash2m")
      [] len = 524288   -> Some("Flash4m")
      [] len = 1048576  -> Some("Flash8m")
      [] len = 8388608  -> Some("Nand64m")
      [] len = 16777216 -> Some("Nand128m")
      [] len = 33554432 -> Some("Nand256m")
      [] OTHER          -> NoneOpt

from_save_len(len) ==
    CASE len = 512      -> Some("Eeprom4k")
      [] len = 8192     -> Some("EepromFram64k")
      [] len = 65536    -> Some("EepromFram512k")
      [] len = 131072   -> Some("EepromFram1m")
      [] len = 262144   -> Some("Flash2m")
      [] len = 524288   -> Some("Flash4m")
      [] len = 1048576  -> Some("Flash8m")
      [] len = 8388608  -> Some("Nand64m")
      [] len = 16777216 -> Some("Nand128m")
      [] len = 33554432 -> Some("Nand256m")
      [] OTHER          -> NoneOpt

(***************************** create_emu_state: save classification *******)
\* ResolveSaveType with the hint kept whenever it disagrees with the image
ResolveSaveType_HintWins(hint, contents) ==
    IF IsSome(contents)
    THEN LET len == ByteLen(Unwrap(contents)) IN
         IF IsSome(hint)
         THEN Unwrap(hint)
         ELSE IF IsSome(from_save_len(len))
              THEN Unwrap(from_save_len(len))
              ELSE "None"
    ELSE IF IsSome(hint) THEN Unwrap(hint) ELSE "None"

\* ResolveSaveType with an unrecognized image size resolved to no save at all
ResolveSaveType_UnrecognizedIsNone(hint, contents) ==
    IF IsSome(contents)
    THEN LET len == ByteLen(Unwrap(contents)) IN
         IF IsSome(hint) /\ expected_len(Unwrap(hint)) = Some(len)
         THEN Unwrap(hint)
         ELSE IF IsSome(from_save_len(len))
              THEN Unwrap(from_save_len(len))
              ELSE "None"
    ELSE IF IsSome(hint) THEN Unwrap(hint) ELSE "None"

\* lib.rs 244-295: the save type resolved from the optional hint and the
\* optional existing save image.
ResolveSaveType(hint, contents) ==
    IF IsSome(contents)
    THEN LET len == ByteLen(Unwrap(contents)) IN
         IF IsSome(hint)
         THEN IF expected_len(Unwrap(hint)) /= Some(len)
              THEN IF IsSome(from_save_len(len))
                   THEN Unwrap(from_save_len(len))
                   ELSE Unwrap(hint)
              ELSE Unwrap(hint)
         ELSE IF IsSome(from_save_len(len))
              THEN Unwrap(from_save_len(len))
              ELSE "None"
    ELSE IF IsSome(hint) THEN Unwrap(hint) ELSE "None"

(***************************** create_emu_state: storage device *************)
\* SaveContents::New(len) handed to a device constructor: the device allocates
\* len bytes itself and fills them with a byte of its own choosing.
SaveContentsNew(len, fill) == Fill(len, fill)

\* NormalizeSaveContents with the copy into the new buffer left out
NormalizeSaveContents_NoCopy(t, contents, fill) ==
    LET expected == Unwrap(expected_len(t)) IN
    IF IsSome(contents)
    THEN LET sc == Unwrap(contents) IN
         IF ByteLen(sc) /= expected THEN new_zeroed(expected) ELSE sc
    ELSE SaveContentsNew(expected, fill)

\* lib.rs 304-317: the contents handed to the device constructor.
NormalizeSaveContents(t, contents, fill) ==
    LET expected == Unwrap(expected_len(t)) IN
    IF IsSome(contents)
    THEN LET sc == Unwrap(contents) IN
         IF ByteLen(sc) /= expected
         THEN copy_from_slice(new_zeroed(expected), sc, Min(ByteLen(sc), expected))
         ELSE sc
    ELSE SaveContentsNew(expected, fill)

Empty == [kind |-> "Empty", contents |-> <<>>]

\* The device constructors' own size check (they return Err, and the
\* .expect() at the call site panics, on any other length).
CreationOk(kind, len) ==
    CASE kind = "Eeprom4k"   -> len = 512
      [] kind = "EepromFram" -> len \in {8192, 65536, 131072}
      [] kind = "Flash"      -> len \in {262144, 524288, 1048576}

DeviceKind(t) ==
    CASE t = "Eeprom4k" -> "Eeprom4k"
      [] t \in {"EepromFram64k", "EepromFram512k", "EepromFram1m"} -> "EepromFram"
      [] t \in {"Flash2m", "Flash4m", "Flash8m"} -> "Flash"
      [] OTHER -> "Empty"

\* what a failed .expect() on a device constructor leaves instead of a device
Panic == [kind |-> "panic", contents |-> <<>>]

\* ds_slot_spi with the NAND types handed to the FLASH constructor
ds_slot_spi_NandAsFlash(t, contents, fill) ==
    IF t = "None" THEN Empty
    ELSE LET buf == NormalizeSaveContents(t, contents, fill)
             kind == IF DeviceKind(t) = "Empty" THEN "Flash" ELSE DeviceKind(t)
         IN  IF CreationOk(kind, ByteLen(buf))
             THEN [kind |-> kind, contents |-> buf]
             ELSE Panic

\* lib.rs 297-365: the DS slot SPI device, or Panic when a constructor's
\* .expect() fails.
ds_slot_spi(t, contents, fill) ==
    IF t = "None" THEN Empty
    ELSE LET buf == NormalizeSaveContents(t, contents, fill) IN
         IF t \in {"Nand64m", "Nand128m", "Nand256m"} THEN Empty
         ELSE IF CreationOk(DeviceKind(t), ByteLen(buf))
              THEN [kind |-> DeviceKind(t), contents |-> buf]
              ELSE Panic

(***************************** Keys *****************************************)
RECURSIVE Pow2(_)
Pow2(n) == IF n = 0 THEN 1 ELSE 2 * Pow2(n - 1)

RECURSIVE BitAnd(_, _)
BitAnd(a, b) ==
    IF a = 0 \/ b = 0 THEN 0
    ELSE (a % 2) * (b % 2) + 2 * BitAnd(a \div 2, b \div 2)

RECURSIVE BitOr(_, _)
BitOr(a, b) ==
    IF a = 0 THEN b
    ELSE IF b = 0 THEN a
    ELSE (IF a % 2 = 1 \/ b % 2 = 1 THEN 1 ELSE 0) + 2 * BitOr(a \div 2, b \div 2)

\* a & !b
RECURSIVE BitAndNot(_, _)
BitAndNot(a, b) ==
    IF a = 0 THEN 0
    ELSE (IF a % 2 = 1 /\ b % 2 = 0 THEN 1 ELSE 0) + 2 * BitAndNot(a \div 2, b \div 2)

\* Keys::all(): the defined flags are the low NumKeys bits
KeysAll == Pow2(NumKeys) - 1

from_bits_truncate(bits) == BitAnd(bits, KeysAll)

\* Emu::press_keys / Emu::release_keys on the set of held keys
press_keys(held, keys) == BitOr(held, keys)
release_keys(held, keys) == BitAndNot(held, keys)

(***************************** inputs ***************************************)
Capacities == {Unwrap(expected_len(t)) : t \in SaveType \ {"None"}}

\* Save image lengths: empty, and around every catalog capacity.
ImageLens == {0} \cup {c + d : c \in Capacities, d \in (0 - Delta) .. Delta}

\* The lengths tried in sessions that go on to use the keys and the touch
\* screen: empty, around the smallest capacity, and one capacity of each of
\* the other families.
SessionImageLens ==
    {0, 8192, 262144, 8388608} \cup {512 + d : d \in (0 - Delta) .. Delta}

\* A save image of length len: every byte 1, the last byte 2.
Image(len) == Concat(Fill(len - 1, 1), Fill(Min(len, 1), 2))

SaveContentsArgs(lens) == {NoneOpt} \cup {Some(Image(len)) : len \in lens}

SaveTypeArgs == {NoneOpt} \cup {Some(t) : t \in SaveType}

\* Fill bytes a device may use for a new save
NewFill == {0, 255}

\* load_save's arguments for a device of capacity cap: one byte short, exact, one byte long
RamArrs(cap) == {Fill(n, 3) : n \in {cap - 1, cap, cap + 1} \cap Nat}

\* update_input's masks: every combination of defined flags, and one mask with
\* an undefined bit set beside the first flag
Masks == (0 .. KeysAll) \cup {KeysAll + 2}

TouchCoords == {NoneOpt, Some(128)}

\* the byte a game writes to its save
GameByte == {4}

(***************************** session **************************************)
Init ==
    /\ pc = "unbuilt"
    /\ save_type = NoneOpt
    /\ save_contents = NoneOpt
    /\ resolved = "None"
    /\ emu = NoneOpt
    /\ ret = [op |-> "none"]

\* emu::Builder::new with the parts the session operations read back: the
\* device, and the input state every new handle starts from
Builder(spi) == [spi |-> spi, keys |-> 0, touch |-> NoneOpt]

\* lib.rs 104-120: the built handle
build_emu(emu_builder) == emu_builder

\* lib.rs 193-406, for arguments drawn from hints and images. build_ok stands
\* for what the constructor aborts on apart from the device (BIOS length, ROM
\* size, firmware, missing BIOS).
CreateEmuState(hints, images) ==
    /\ pc = "unbuilt"
    /\ \E hint \in hints, contents \in images,
          fill \in NewFill, build_ok \in BOOLEAN :
          LET t   == ResolveSaveType(hint, contents)
              spi == ds_slot_spi(t, contents, fill)
          IN  /\ save_type' = hint
              /\ save_contents' = contents
              /\ resolved' = t
              /\ IF spi.kind = "panic"
                 THEN /\ pc' = "panicked"
                      /\ emu' = NoneOpt
                      /\ ret' = [op |-> "create_emu_state", panic |-> "ds_slot_spi"]
                 ELSE IF ~build_ok
                 THEN /\ pc' = "panicked"
                      /\ emu' = NoneOpt
                      /\ ret' = [op |-> "create_emu_state", panic |-> "build"]
                 ELSE /\ pc' = "built"
                      /\ emu' = Some(build_emu(Builder(spi)))
                      /\ ret' = [op |-> "create_emu_state", panic |-> "no"]

create_emu_state == CreateEmuState(SaveTypeArgs, SaveContentsArgs(ImageLens))

create_emu_state_session == CreateEmuState(SaveTypeArgs, SaveContentsArgs(SessionImageLens))

\* ds_slot.spi.reset(): the device for the next handle
spi_reset(spi) == spi

\* reset with the device made again from create_emu_state's arguments
reset_FromImage ==
    /\ pc = "built"
    /\ emu' = Some(build_emu(Builder(ds_slot_spi(resolved, save_contents, 0))))
    /\ ret' = [op |-> "reset"]
    /\ UNCHANGED <<pc, save_type, save_contents, resolved>>

\* reset that takes the handle and stores none back
reset_TakesHandle ==
    /\ pc = "built"
    /\ emu' = NoneOpt
    /\ ret' = [op |-> "reset"]
    /\ UNCHANGED <<pc, save_type, save_contents, resolved>>

\* lib.rs 126-152
reset ==
    /\ pc = "built"
    /\ LET old == Unwrap(emu) IN
       emu' = Some(build_emu(Builder(spi_reset(old.spi))))
    /\ ret' = [op |-> "reset"]
    /\ UNCHANGED <<pc, save_type, save_contents, resolved>>

\* Uint8Array::copy_to(dst): panics unless the lengths agree
copy_to_ok(arr, dst) == ByteLen(arr) = ByteLen(dst)

\* load_save that replaces the backing buffer by whatever it is given
load_save_Unchecked ==
    /\ pc = "built"
    /\ \E ram_arr \in RamArrs(ByteLen(Unwrap(emu).spi.contents)) :
          /\ ret' = [op |-> "load_save", len |-> ByteLen(ram_arr)]
          /\ emu' = Some([Unwrap(emu) EXCEPT !.spi.contents = ram_arr])
          /\ pc' = pc
    /\ UNCHANGED <<save_type, save_contents, resolved>>

\* lib.rs 154-156
load_save ==
    /\ pc = "built"
    /\ \E ram_arr \in RamArrs(ByteLen(Unwrap(emu).spi.contents)) :
          /\ ret' = [op |-> "load_save", len |-> ByteLen(ram_arr)]
          /\ IF copy_to_ok(ram_arr, Unwrap(emu).spi.contents)
             THEN /\ emu' = Some([Unwrap(emu) EXCEPT !.spi.contents = ram_arr])
                  /\ pc' = pc
             ELSE /\ pc' = "panicked"
                  /\ emu' = emu
    /\ UNCHANGED <<save_type, save_contents, resolved>>

\* lib.rs 158-160
export_save ==
    /\ pc = "built"
    /\ ret' = [op |-> "export_save", val |-> Unwrap(emu).spi.contents]
    /\ UNCHANGED <<pc, save_type, save_contents, resolved, emu>>

\* UpdateInput with the two calls in the other order
UpdateInput_ReleaseFirst(e, pressed, released) ==
    [e EXCEPT !.keys = press_keys(release_keys(@, from_bits_truncate(released)),
                                  from_bits_truncate(pressed))]

\* lib.rs 163-165: the handle after the two calls
UpdateInput(e, pressed, released) ==
    [e EXCEPT !.keys = release_keys(press_keys(@, from_bits_truncate(pressed)),
                                    from_bits_truncate(released))]

\* lib.rs 162-166
update_input(pressed, released) ==
    /\ pc = "built"
    /\ emu' = Some(UpdateInput(Unwrap(emu), pressed, released))
    /\ ret' = [op |-> "update_input", pressed |-> pressed, released |-> released]
    /\ UNCHANGED <<pc, save_type, save_contents, resolved>>

\* lib.rs 168-175
update_touch(x, y) ==
    /\ pc = "built"
    /\ emu' = Some([Unwrap(emu) EXCEPT
                      !.touch = IF IsSome(x) /\ IsSome(y)
                                THEN Some(<<Unwrap(x), Unwrap(y)>>)
                                ELSE NoneOpt])
    /\ ret' = [op |-> "update_touch"]
    /\ UNCHANGED <<pc, save_type, save_contents, resolved>>

\* the device's write of one byte, discarded by an Empty device
spi_write(spi, off, b) ==
    IF spi.kind = "Empty" \/ off >= ByteLen(spi.contents) THEN spi
    ELSE [spi EXCEPT !.contents =
             Concat(Concat(Take(@, off), Fill(1, b)), Drop(@, off + 1))]

\* lib.rs 177-187: one frame of the core, in which the game may store a byte
\* in the last cell of its save
run_frame ==
    /\ pc = "built"
    /\ \E writes \in BOOLEAN, b \in GameByte :
          LET e == Unwrap(emu) IN
          emu' = Some(IF writes
                      THEN [e EXCEPT !.spi = spi_write(@, ByteLen(@.contents) - 1, b)]
                      ELSE e)
    /\ ret' = [op |-> "run_frame"]
    /\ UNCHANGED <<pc, save_type, save_contents, resolved>>

\* A session with every operation of the host interface.
Next ==
    \/ create_emu_state_session
    \/ reset
    \/ load_save
    \/ export_save
    \/ \E pressed \in Masks, released \in Masks : update_input(pressed, released)
    \/ \E x \in TouchCoords, y \in TouchCoords : update_touch(x, y)
    \/ run_frame

Spec == Init /\ [][Next]_vars

\* A session built from every hint and every image length, and the operations
\* that reach its save storage.
SaveNext ==
    \/ create_emu_state
    \/ reset
    \/ load_save
    \/ export_save
    \/ run_frame

SaveSpec == Init /\ [][SaveNext]_vars

(***************************** properties ***********************************)
Contents == Unwrap(emu).spi.contents

ImageLen == ByteLen(Unwrap(save_contents))

Nand == {"Nand64m", "Nand128m", "Nand256m"}

JustBuilt == pc = "built" /\ ret.op = "create_emu_state"

\* bit i of mask
Bit(mask, i) == (mask \div Pow2(i)) % 2

\* C1: when a save image is present and its length is one of the ten catalog
\* capacities, the resolved save type is from_save_len(image length), whatever
\* the hint (absent, None, matching or disagreeing).
C1_RecognizedSizeWins ==
    (pc = "built" /\ IsSome(save_contents) /\ ImageLen \in Capacities)
        => Some(resolved) = from_save_len(ImageLen)

C1_Witness ==
    /\ pc = "built"
    /\ save_type = Some("Flash2m")
    /\ IsSome(save_contents) /\ ImageLen = 512
    /\ resolved = "Eeprom4k"

\* C2: when the image's length matches no catalog capacity, or there is no
\* image, the resolved save type is the hint unchanged, and None without a hint.
C2_UnrecognizedDefersToHint ==
    (pc = "built" /\ (IsSome(save_contents) => ImageLen \notin Capacities))
        => resolved = (IF IsSome(save_type) THEN Unwrap(save_type) ELSE "None")

C2_Witness ==
    /\ pc = "built"
    /\ save_type = Some("Flash2m")
    /\ IsSome(save_contents) /\ ImageLen = 511
    /\ resolved = "Flash2m"

\* C3: for a resolved EEPROM, EEPROM/FRAM or FLASH type of capacity C and an
\* image of length L, the device's buffer right after the build has length C,
\* its first min(L, C) bytes are the image's, the rest are zero, and it equals
\* the image exactly when L = C; without an image it is a buffer of length C.
\* The device constructor never rejects the buffer, and export_save returns
\* the buffer as it is.
C3_BufferNormalized ==
    /\ ~(pc = "panicked" /\ ret.op = "create_emu_state" /\ ret.panic = "ds_slot_spi")
    /\ (JustBuilt /\ DeviceKind(resolved) /= "Empty") =>
         LET C == Unwrap(expected_len(resolved)) IN
         /\ ByteLen(Contents) = C
         /\ IsSome(save_contents) =>
              LET img == Unwrap(save_contents)
                  m == Min(ImageLen, C)
              IN  /\ Take(Contents, m) = Take(img, m)
                  /\ Drop(Contents, m) = Fill(C - m, 0)
                  /\ \A i \in {0, m - 1, m, C - 1} :
                        (0 <= i /\ i < C) =>
                           ByteAt(Contents, i) = (IF i < m THEN ByteAt(img, i) ELSE 0)
                  /\ (Contents = img) <=> (ImageLen = C)
    /\ (pc = "built" /\ ret.op = "export_save") => ret.val = Contents

C3_Witness ==
    /\ JustBuilt
    /\ resolved = "Eeprom4k"
    /\ IsSome(save_contents) /\ ImageLen = 511
    /\ ByteAt(Contents, 510) = 2
    /\ ByteAt(Contents, 511) = 0

\* C4: load_save with a buffer whose length differs from the device's capacity
\* leaves the backing buffer as it was and the session usable.
C4_MismatchedLoadRejected ==
    [][(pc = "built" /\ ret'.op = "load_save" /\ ret'.len /= ByteLen(Contents))
         => (pc' = "built" /\ emu' = emu)]_vars

\* C5: reset leaves the save storage's backing bytes (and the device's kind)
\* as they were just before it.
C5_ResetPreservesSave ==
    [][(pc = "built" /\ ret'.op = "reset")
         => (Unwrap(emu').spi = Unwrap(emu).spi)]_vars

\* a reset after which the contents are not what the original image gives
C5_Witness ==
    /\ pc = "built"
    /\ ret.op = "reset"
    /\ Unwrap(emu).spi.kind /= "Empty"
    /\ \A fill \in NewFill :
          Contents /= NormalizeSaveContents(resolved, save_contents, fill)

\* C6: with a resolved NAND type the build does not fail in the device
\* factory, the device is Empty, and export_save returns a zero-length buffer.
C6_NandSubstituted ==
    (pc /= "unbuilt" /\ resolved \in Nand) =>
        /\ ret.op = "create_emu_state" => ret.panic /= "ds_slot_spi"
        /\ IsSome(emu) => Unwrap(emu).spi = Empty
        /\ ret.op = "export_save" => ret.val = <<>>

C6_Witness ==
    /\ pc = "built"
    /\ save_type = Some("Nand64m")
    /\ save_contents = NoneOpt
    /\ resolved = "Nand64m"
    /\ ret.op = "export_save"
    /\ ByteLen(ret.val) = 0

C8_ReleaseWins ==
    [][(pc = "built" /\ ret'.op = "update_input") =>
          /\ Unwrap(emu').keys < Pow2(NumKeys)
          /\ \A i \in 0 .. NumKeys - 1 :
                Bit(Unwrap(emu').keys, i) =
                   (IF Bit(ret'.released, i) = 1 THEN 0
                    ELSE IF Bit(ret'.pressed, i) = 1 THEN 1
                    ELSE Bit(Unwrap(emu).keys, i))]_vars

C8_Witness ==
    /\ pc = "built"
    /\ ret.op = "update_input"
    /\ Bit(ret.pressed, 0) = 1
    /\ Bit(ret.released, 0) = 1
    /\ Bit(Unwrap(emu).keys, 0) = 0

\* C9: from_save_len(expected_len(p)) = p for every save type p but None, no
\* two save types share a capacity, and for the length n of any image,
\* from_save_len(n) = p implies expected_len(p) = n, with no save type for a
\* length that is not one of the ten capacities.
C9_CatalogRoundTrip ==
    /\ \A p \in SaveType \ {"None"} :
          /\ IsSome(expected_len(p))
          /\ from_save_len(Unwrap(expected_len(p))) = Some(p)
    /\ \A p, q \in SaveType \ {"None"} : expected_len(p) = expected_len(q) => p = q
    /\ Cardinality(Capacities) = 10
    /\ IsSome(save_contents) =>
          /\ IsSome(from_save_len(ImageLen)) =>
                expected_len(Unwrap(from_save_len(ImageLen))) = Some(ImageLen)
          /\ ImageLen \notin Capacities => from_save_len(ImageLen) = NoneOpt

C9_Witness ==
    /\ pc = "built"
    /\ save_type = NoneOpt
    /\ IsSome(save_contents) /\ ImageLen = 8192
    /\ resolved = "EepromFram64k"

\* C10: in every state of a built session the backing buffer's length, and the
\* length of what export_save returns, is the declared capacity of the save
\* type resolved at build, or 0 for None and the NAND types.
C10_LengthFixed ==
    IsSome(emu) =>
        LET declared == IF resolved = "None" \/ resolved \in Nand
                        THEN 0 ELSE Unwrap(expected_len(resolved))
        IN  /\ ByteLen(Contents) = declared
            /\ ret.op = "export_save" => ByteLen(ret.val) = declared

\* a rejected load_save, after which the length is still the capacity
C10_Witness ==
    /\ pc = "panicked"
    /\ ret.op = "load_save"
    /\ ret.len = 513
    /\ IsSome(emu)
    /\ ByteLen(Contents) = 512

====
